---- MODULE Spec2Model ----
(***************************************************************************)
(* Authentication / authorization core of the FastAPI user management      *)
(* service: password hashing, JWT issue/decode, the guard dependencies     *)
(* (get_current_user, get_current_admin, require_admin_access) and the     *)
(* request handlers of app/main.py with the crud functions they call.      *)
(*                                                                         *)
(* A request is handled by a worker thread; its steps are the points where *)
(* it touches the database or the clock: arrival + token decode, the       *)
(* guard's principal lookup, the handler's own lookup, the commit.         *)
(* Requests of different clients interleave between those steps.           *)
(***************************************************************************)
EXTENDS Integers, Sequences, FiniteSets, TLC

\* ---------------------------------------------------------------- bounds
MaxTime == 30        \* the clock stops advancing after this many minutes
TickStep == 15       \* minutes by which one clock step advances
MaxId == 2           \* user ids handed out by the users table
MaxHeld == 2         \* tokens the clients keep at one time

\* ------------------------------------------------------- configuration
SECRET_KEY == "your-256-bit-secret-key-here-change-this-in-production"
ALGORITHM == "HS256"
ACCESS_TOKEN_EXPIRE_MINUTES == 30

\* ------------------------------------------------------------- domains
Clients == {"c1", "c2"}
SeqClients == {"c1"}
Usernames == {"alice", "root"}
AdminNames == {"root", "carol"}
Passwords == {"pw1", "pw2"}
Salts == {"s1"}
OtherSecret == "S2"
Ids == 1..MaxId

\* Optional values are sets with at most one element: {} is None.
None == {}
Some(v) == {v}
Opt(S) == {None} \cup {Some(v) : v \in S}

\* ---------------------------------------------------------------- state
\* users, admins: the two tables; next_id: the users table's autoincrement;
\* now: the clock in minutes; held: the tokens the clients keep;
\* req: the request each client has in flight.
VARIABLES users, admins, next_id, now, held, req
\* session: st.session_state of the dashboard (access_token, current_user,
\* page); screen: the sidebar's page choice and what the last script run
\* rendered; launcher: run_app.py's position and its two child processes.
VARIABLES session, screen, launcher
desk == <<session, screen, launcher>>
vars == <<users, admins, next_id, now, held, req, session, screen, launcher>>

\* No dashboard process is running: there is no session and nothing on screen.
NoSession == [access_token |-> None, current_user |-> None, page |-> None]
Closed == [choice |-> "Dashboard", page |-> "closed", info |-> FALSE]
\* run_app.py has printed its menu and waits at input().
AtMenu == [pc |-> "input", backend |-> "none", frontend |-> "none", raised |-> FALSE]

\* ------------------------------------------------- Credential Hasher
\* get_password_hash: salted one-way transform; the salt is embedded in
\* the stored value.
Digest(plain, salt) == <<"bcrypt", salt, plain>>
get_password_hash(plain, salt) == [salt |-> salt, digest |-> Digest(plain, salt)]
\* verify_password: identify the scheme of the stored value (a value that is
\* truncated or of a foreign format verifies nothing), then re-hash the
\* candidate with the stored salt and compare.
Identified(stored) == Len(stored.digest) = 3 /\ stored.digest[1] = "bcrypt"
verify_password(plain, stored) ==
    Identified(stored) /\ stored.digest = Digest(plain, stored.salt)

\* ------------------------------------------------------- Token Codec
\* A compact token is three segments: header, payload, signature.
Sign(header, payload, key) == [h |-> header, p |-> payload, k |-> key]
Encode(payload, key, alg) == <<[alg |-> alg], payload, Sign([alg |-> alg], payload, key)>>

\* create_access_token(data, expires_delta): expiry = encode time + lifetime.
create_access_token(data, expires_delta, clock) ==
    Encode([sub |-> data.sub, exp |-> clock + expires_delta], SECRET_KEY, ALGORITHM)

WellFormed(tok) == Len(tok) = 3
VerifiesUnder(tok, key, alg) ==
    /\ WellFormed(tok)
    /\ tok[1].alg = alg
    /\ tok[3] = Sign(tok[1], tok[2], key)

\* decode: structure, then signature, then expiry.
decode_unverified(tok, clock) ==
    IF ~WellFormed(tok) THEN [err |-> "Malformed", sub |-> ""]
    ELSE IF clock >= tok[2].exp THEN [err |-> "Expired", sub |-> ""]
    ELSE [err |-> "ok", sub |-> tok[2].sub]
decode_session_bound(tok, clock) ==
    IF ~WellFormed(tok) THEN [err |-> "Malformed", sub |-> ""]
    ELSE IF ~VerifiesUnder(tok, SECRET_KEY, ALGORITHM) THEN [err |-> "BadSignature", sub |-> ""]
    ELSE IF clock >= tok[2].exp THEN [err |-> "Expired", sub |-> ""]
    ELSE IF \A h \in held : h.tok # tok THEN [err |-> "Expired", sub |-> ""]
    ELSE [err |-> "ok", sub |-> tok[2].sub]
decode(tok, clock) ==
    IF ~WellFormed(tok) THEN [err |-> "Malformed", sub |-> ""]
    ELSE IF ~VerifiesUnder(tok, SECRET_KEY, ALGORITHM) THEN [err |-> "BadSignature", sub |-> ""]
    ELSE IF clock >= tok[2].exp THEN [err |-> "Expired", sub |-> ""]
    ELSE [err |-> "ok", sub |-> tok[2].sub]

\* ------------------------------------------------- persistence (crud)
\* A table is a set of rows; .first() of a filter returns some matching row.
get_user_by_username(tbl, username) ==
    IF \E u \in tbl : u.username = username
    THEN Some(CHOOSE u \in tbl : u.username = username) ELSE None
get_user_by_id(tbl, user_id) ==
    IF \E u \in tbl : u.id = user_id
    THEN Some(CHOOSE u \in tbl : u.id = user_id) ELSE None
get_admin_by_username(tbl, username) ==
    IF \E a \in tbl : a.username = username
    THEN Some(CHOOSE a \in tbl : a.username = username) ELSE None

\* Unique constraints of the users table (username, email).
UniqueOK(tbl) ==
    \A u, v \in tbl : u.id # v.id => u.username # v.username /\ u.email # v.email

authenticate_user_unverified(tbl, username, password) ==
    get_user_by_username(tbl, username)
authenticate_user(tbl, username, password) ==
    LET found == get_user_by_username(tbl, username) IN
    IF found = None THEN None
    ELSE IF \E u \in found : ~verify_password(password, u.hashed_password) THEN None
    ELSE found
authenticate_admin_unverified(tbl, username, password) ==
    get_admin_by_username(tbl, username)
authenticate_admin(tbl, username, password) ==
    LET found == get_admin_by_username(tbl, username) IN
    IF found = None THEN None
    ELSE IF \E a \in found : ~verify_password(password, a.hashed_password) THEN None
    ELSE found

NoToken == << >>
\* A request in flight or answered: the endpoint, the position of its worker,
\* the bearer token and the time it was decoded at, the decoded subject, the
\* principal the guard returned and the number of lookups it made, the
\* handler's username/password/is_admin/id, the username and email of an
\* update's body, and the answer
\* (status, the failure kind behind a 401, the token a login returned).
Idle == [kind |-> "none", pc |-> "idle", tok |-> NoToken, at |-> 0, sub |-> "",
         principal |-> None, lookups |-> 0, arg |-> "", pw |-> "", is_admin |-> None,
         username |-> None, email |-> None,
         target |-> 0, status |-> 0, err |-> "", out |-> NoToken]

\* The admins database is provisioned outside the service (create_admin is
\* called by no handler): one super admin and one plain admin.
InitAdmins ==
    { [id |-> 1, username |-> "root", email |-> "root@x.com",
       hashed_password |-> get_password_hash("pw1", "s1"), is_super_admin |-> TRUE],
      [id |-> 2, username |-> "carol", email |-> "carol@x.com",
       hashed_password |-> get_password_hash("pw1", "s1"), is_super_admin |-> FALSE] }

Init ==
    /\ users = {}
    /\ admins = InitAdmins
    /\ next_id = 1
    /\ now = 0
    /\ held = {}
    /\ req = [c \in Clients |-> Idle]
    /\ session = NoSession
    /\ screen = Closed
    /\ launcher = AtMenu

\* The clock advances between the steps of the requests in flight (an
\* answered request is observed at the instant it is answered).
Tick ==
    /\ now + TickStep <= MaxTime
    /\ \A c \in Clients : req[c].pc # "done"
    /\ now' = now + TickStep
    /\ UNCHANGED <<users, admins, next_id, held, req, desk>>

\* ------------------------------------------------------ request routing
\* The guard dependency declared by each handler's signature.
GuardOf_me_unguarded(kind) ==
    CASE kind \in {"update_existing_user", "delete_existing_user"} -> "get_current_user"
      [] kind = "read_current_admin" -> "get_current_admin"
      [] kind \in {"admin_create_user", "admin_update_user", "admin_delete_user",
                   "admin_get_all_users", "admin_get_user_by_id"} -> "require_admin_access"
      [] OTHER -> "none"
GuardOf_admin_delete_unguarded(kind) ==
    CASE kind \in {"read_current_user", "update_existing_user", "delete_existing_user"}
           -> "get_current_user"
      [] kind = "read_current_admin" -> "get_current_admin"
      [] kind \in {"admin_create_user", "admin_update_user",
                   "admin_get_all_users", "admin_get_user_by_id"} -> "require_admin_access"
      [] OTHER -> "none"
GuardOf_admin_me_elevated(kind) ==
    CASE kind \in {"read_current_user", "update_existing_user", "delete_existing_user"}
           -> "get_current_user"
      [] kind \in {"read_current_admin", "admin_create_user", "admin_update_user",
                   "admin_delete_user", "admin_get_all_users", "admin_get_user_by_id"}
           -> "require_admin_access"
      [] OTHER -> "none"
GuardOf(kind) ==
    CASE kind = "read_current_user" -> "get_current_user"
      [] kind = "update_existing_user" -> "get_current_user"
      [] kind = "delete_existing_user" -> "get_current_user"
      [] kind = "read_current_admin" -> "get_current_admin"
      [] kind = "admin_create_user" -> "require_admin_access"
      [] kind = "admin_update_user" -> "require_admin_access"
      [] kind = "admin_delete_user" -> "require_admin_access"
      [] kind = "admin_get_all_users" -> "require_admin_access"
      [] kind = "admin_get_user_by_id" -> "require_admin_access"
      [] OTHER -> "none"

Kinds == {"read_current_user", "update_existing_user", "delete_existing_user",
          "read_current_admin", "admin_create_user", "admin_update_user",
          "admin_delete_user", "admin_get_all_users", "admin_get_user_by_id",
          "create_new_user", "login_for_access_token", "admin_login_for_access_token"}

\* Token strings a client can put in the Authorization header: the tokens
\* handed out so far, altered copies of them, tokens signed by the client
\* itself with a secret of its own, and truncated strings.
KnownTokens == {h.tok : h \in held}
Altered(t) ==
    { <<t[1], [t[2] EXCEPT !.sub = "root"], t[3]>>,
      <<t[1], [t[2] EXCEPT !.exp = @ + ACCESS_TOKEN_EXPIRE_MINUTES], t[3]>>,
      <<[alg |-> "none"], t[2], t[3]>>,
      <<t[1], t[2], Sign(t[1], t[2], OtherSecret)>> } \ {t}
Truncated(t) == <<t[1], t[2]>>
SelfSigned(clock) ==
    Encode([sub |-> "root", exp |-> clock + ACCESS_TOKEN_EXPIRE_MINUTES], OtherSecret, ALGORITHM)
BadTokens ==
    UNION {Altered(t) : t \in KnownTokens}
        \cup {Truncated(t) : t \in KnownTokens} \cup {SelfSigned(now)}
Presentable(In) == IF In.bad_tokens THEN KnownTokens \cup BadTokens ELSE KnownTokens

\* What the clients send in one specification: the endpoints called, whether
\* altered/self-signed tokens are presented, and the request-body values.
AuthIn ==
    [kinds |-> Kinds, bad_tokens |-> TRUE,
     usernames |-> Usernames, login_passwords |-> Passwords,
     new_email |-> [u \in Usernames |-> IF u = "alice" THEN {"a@x.com"} ELSE {"b@x.com"}],
     new_password |-> {"pw1"}, new_is_admin |-> {FALSE},
     upd_username |-> Opt(Usernames), upd_email |-> {None},
     upd_password |-> {None}, upd_is_admin |-> {None}]

Finish(r, st) == [r EXCEPT !.pc = "done", !.status = st]

\* Arrival of a request.  For a guarded endpoint the dependency decodes the
\* bearer token first; a codec failure ends the request with 401.
Request(c, In) ==
    /\ req[c].pc = "idle"
    /\ \E kind \in In.kinds :
         LET fresh == [Idle EXCEPT !.kind = kind] IN
         IF GuardOf(kind) = "none"
         THEN req' = [req EXCEPT ![c] = [fresh EXCEPT !.pc = "body"]]
         ELSE \E tok \in Presentable(In) :
              LET d == decode(tok, now)
                  r == [fresh EXCEPT !.tok = tok, !.at = now] IN
              IF d.err # "ok"
              THEN req' = [req EXCEPT ![c] = Finish([fresh EXCEPT !.err = d.err], 401)]
              ELSE req' = [req EXCEPT ![c] = [r EXCEPT !.pc = "resolving", !.sub = d.sub]]
    /\ UNCHANGED <<users, admins, next_id, now, held, desk>>

\* The guard's lookup of the principal named by the decoded subject.
get_current_user(r, tbl) ==
    LET found == get_user_by_username(tbl, r.sub) IN
    IF found = None
    THEN Finish([r EXCEPT !.err = "PrincipalNotFound", !.lookups = @ + 1], 401)
    ELSE [r EXCEPT !.pc = "body", !.principal = found, !.lookups = @ + 1]
get_current_admin(r, tbl) ==
    LET found == get_admin_by_username(tbl, r.sub) IN
    IF found = None
    THEN Finish([r EXCEPT !.err = "PrincipalNotFound", !.lookups = @ + 1], 401)
    ELSE [r EXCEPT !.pc = "body", !.principal = found, !.lookups = @ + 1]
require_admin_access(r, tbl) ==
    LET a == get_current_admin(r, tbl) IN
    IF a.pc = "done" THEN a
    ELSE IF \E adm \in a.principal : ~adm.is_super_admin
         THEN Finish([a EXCEPT !.principal = None, !.err = "Forbidden"], 403)
         ELSE a

Resolve(c) ==
    /\ req[c].pc = "resolving"
    /\ LET g == GuardOf(req[c].kind) IN
       req' = [req EXCEPT ![c] =
                 CASE g = "get_current_user" -> get_current_user(req[c], users)
                   [] g = "get_current_admin" -> get_current_admin(req[c], admins)
                   [] OTHER -> require_admin_access(req[c], admins)]
    /\ UNCHANGED <<users, admins, next_id, now, held, desk>>

InBody(c, kind) == req[c].pc = "body" /\ req[c].kind = kind

\* ------------------------------------------------------------ handlers
read_current_user(c) ==
    /\ InBody(c, "read_current_user")
    /\ req' = [req EXCEPT ![c] = Finish(@, 200)]
    /\ UNCHANGED <<users, admins, next_id, now, held, desk>>

read_current_admin(c) ==
    /\ InBody(c, "read_current_admin")
    /\ req' = [req EXCEPT ![c] = Finish(@, 200)]
    /\ UNCHANGED <<users, admins, next_id, now, held, desk>>

admin_get_all_users(c) ==
    /\ InBody(c, "admin_get_all_users")
    /\ req' = [req EXCEPT ![c] = Finish(@, 200)]
    /\ UNCHANGED <<users, admins, next_id, now, held, desk>>

admin_get_user_by_id(c) ==
    /\ InBody(c, "admin_get_user_by_id")
    /\ \E user_id \in Ids :
         req' = [req EXCEPT ![c] =
                   IF get_user_by_id(users, user_id) = None
                   THEN Finish(@, 404) ELSE Finish([@ EXCEPT !.target = user_id], 200)]
    /\ UNCHANGED <<users, admins, next_id, now, held, desk>>

\* The clients keep the tokens they are handed (at most MaxHeld of them), each
\* with the login that returned it, the id of the principal it was issued for,
\* the stored hash the credentials were verified against and the time it was
\* issued at.
Keep(tok, via, principal) ==
    LET h == [tok |-> tok, via |-> via, id |-> principal.id,
              hash |-> principal.hashed_password, at |-> now] IN
    IF Cardinality(held \cup {h}) <= MaxHeld THEN held \cup {h} ELSE held

\* timedelta(minutes=ACCESS_TOKEN_EXPIRE_MINUTES)
access_token_expires_doubled == 2 * ACCESS_TOKEN_EXPIRE_MINUTES
access_token_expires == ACCESS_TOKEN_EXPIRE_MINUTES
\* data={"sub": <principal>.username}
TokenData_email(principal) == [sub |-> principal.email]
TokenData(principal) == [sub |-> principal.username]

\* POST /login: the token is handed to the client, which keeps it.
login_for_access_token(c, In) ==
    /\ InBody(c, "login_for_access_token")
    /\ \E username \in In.usernames, password \in In.login_passwords :
         LET user == authenticate_user(users, username, password) IN
         IF user = None
         THEN /\ req' = [req EXCEPT ![c] =
                           Finish([@ EXCEPT !.arg = username, !.pw = password], 401)]
              /\ UNCHANGED held
         ELSE LET u == CHOOSE x \in user : TRUE
                  access_token == create_access_token(TokenData(u), access_token_expires, now) IN
              /\ req' = [req EXCEPT ![c] =
                           Finish([@ EXCEPT !.arg = username, !.pw = password, !.at = now,
                                            !.out = access_token], 200)]
              /\ held' = Keep(access_token, "login", u)
    /\ UNCHANGED <<users, admins, next_id, now, desk>>

admin_login_for_access_token(c, In) ==
    /\ InBody(c, "admin_login_for_access_token")
    /\ \E username \in AdminNames, password \in In.login_passwords :
         LET admin == authenticate_admin(admins, username, password) IN
         IF admin = None
         THEN /\ req' = [req EXCEPT ![c] =
                           Finish([@ EXCEPT !.arg = username, !.pw = password], 401)]
              /\ UNCHANGED held
         ELSE LET a == CHOOSE x \in admin : TRUE
                  access_token == create_access_token(TokenData(a), access_token_expires, now) IN
              /\ req' = [req EXCEPT ![c] =
                           Finish([@ EXCEPT !.arg = username, !.pw = password, !.at = now,
                                            !.out = access_token], 200)]
              /\ held' = Keep(access_token, "admin_login", a)
    /\ UNCHANGED <<users, admins, next_id, now, desk>>

\* POST /users and POST /admin/users up to the insert: the username check.
CheckUsername_unchecked(r, tbl, username) ==
    [r EXCEPT !.pc = "commit", !.arg = username]
CheckUsername(r, tbl, username) ==
    IF get_user_by_username(tbl, username) # None
    THEN Finish([r EXCEPT !.arg = username], 400)
    ELSE [r EXCEPT !.pc = "commit", !.arg = username]

create_new_user(c, In) ==
    /\ InBody(c, "create_new_user")
    /\ \E username \in In.usernames :
         req' = [req EXCEPT ![c] = CheckUsername(@, users, username)]
    /\ UNCHANGED <<users, admins, next_id, now, held, desk>>

admin_create_user(c, In) ==
    /\ InBody(c, "admin_create_user")
    /\ \E username \in In.usernames :
         req' = [req EXCEPT ![c] = CheckUsername(@, users, username)]
    /\ UNCHANGED <<users, admins, next_id, now, held, desk>>

\* PUT/DELETE up to the write: the lookup of the target row.
LookupTarget_unauthenticated(r, tbl, user_id) ==
    IF get_user_by_id(tbl, user_id) = None
    THEN Finish([r EXCEPT !.err = "PrincipalNotFound"], 401)
    ELSE [r EXCEPT !.pc = "commit", !.target = user_id]
LookupTarget(r, tbl, user_id) ==
    IF get_user_by_id(tbl, user_id) = None
    THEN Finish(r, 404)
    ELSE [r EXCEPT !.pc = "commit", !.target = user_id]

\* PUT/DELETE /users/{user_id}: "Users can only update their own profile".
OwnOnly_refreshing(r, tbl, user_id) ==
    LET cur == [r EXCEPT !.principal = get_user_by_username(tbl, r.sub)] IN
    IF \E cu \in cur.principal : cu.id # user_id
    THEN Finish([cur EXCEPT !.target = user_id], 403)
    ELSE LookupTarget([cur EXCEPT !.target = user_id], tbl, user_id)
OwnOnly_401(r, tbl, user_id) ==
    IF \E cu \in r.principal : cu.id # user_id
    THEN Finish([r EXCEPT !.target = user_id], 401)
    ELSE LookupTarget([r EXCEPT !.target = user_id], tbl, user_id)
OwnOnly_unchecked(r, tbl, user_id) ==
    LookupTarget(r, tbl, user_id)
OwnOnly(r, tbl, user_id) ==
    IF \E cu \in r.principal : cu.id # user_id
    THEN Finish([r EXCEPT !.target = user_id], 403)
    ELSE LookupTarget([r EXCEPT !.target = user_id], tbl, user_id)

admin_update_user(c) ==
    /\ InBody(c, "admin_update_user")
    /\ \E user_id \in Ids : req' = [req EXCEPT ![c] = LookupTarget(@, users, user_id)]
    /\ UNCHANGED <<users, admins, next_id, now, held, desk>>

admin_delete_user(c) ==
    /\ InBody(c, "admin_delete_user")
    /\ \E user_id \in Ids : req' = [req EXCEPT ![c] = LookupTarget(@, users, user_id)]
    /\ UNCHANGED <<users, admins, next_id, now, held, desk>>

update_existing_user(c) ==
    /\ InBody(c, "update_existing_user")
    /\ \E user_id \in Ids : req' = [req EXCEPT ![c] = OwnOnly(@, users, user_id)]
    /\ UNCHANGED <<users, admins, next_id, now, held, desk>>

delete_existing_user(c) ==
    /\ InBody(c, "delete_existing_user")
    /\ \E user_id \in Ids : req' = [req EXCEPT ![c] = OwnOnly(@, users, user_id)]
    /\ UNCHANGED <<users, admins, next_id, now, held, desk>>

\* ------------------------------------------------------- crud writes
InCommit(c, kinds) == req[c].pc = "commit" /\ req[c].kind \in kinds

\* create_user: hash, add, commit.  POST /users forces is_admin = False.
create_user(c, In) ==
    /\ InCommit(c, {"create_new_user", "admin_create_user"})
    /\ next_id <= MaxId
    /\ \E email \in In.new_email[req[c].arg], password \in In.new_password, salt \in Salts,
          is_admin \in In.new_is_admin :
         LET db_user == [id |-> next_id, username |-> req[c].arg, email |-> email,
                         hashed_password |-> get_password_hash(password, salt),
                         is_admin |-> IF req[c].kind = "create_new_user" THEN FALSE ELSE is_admin] IN
         IF UniqueOK(users \cup {db_user})
         THEN /\ users' = users \cup {db_user}
              /\ next_id' = next_id + 1
              /\ req' = [req EXCEPT ![c] =
                           Finish([@ EXCEPT !.target = db_user.id, !.pw = password,
                                            !.is_admin = Some(is_admin)], 200)]
         ELSE /\ req' = [req EXCEPT ![c] =
                           Finish([@ EXCEPT !.pw = password, !.is_admin = Some(is_admin)], 500)]
              /\ UNCHANGED <<users, next_id>>
    /\ UNCHANGED <<admins, now, held, desk>>

\* update_user: only truthy fields are assigned ("if username:" skips None
\* and the empty string alike); is_admin when it is not None.
Supplied(field) == field # None /\ field # Some("")

Updated_keeps_password(user, username, email, password, salt, is_admin) ==
    [id |-> user.id,
     username |-> IF Supplied(username) THEN CHOOSE v \in username : TRUE ELSE user.username,
     email |-> IF Supplied(email) THEN CHOOSE v \in email : TRUE ELSE user.email,
     hashed_password |-> user.hashed_password,
     is_admin |-> IF is_admin # None THEN CHOOSE v \in is_admin : TRUE ELSE user.is_admin]
Updated_when_not_None(user, username, email, password, salt, is_admin) ==
    [id |-> user.id,
     username |-> IF username # None THEN CHOOSE v \in username : TRUE ELSE user.username,
     email |-> IF email # None THEN CHOOSE v \in email : TRUE ELSE user.email,
     hashed_password |-> IF password # None
                         THEN get_password_hash(CHOOSE v \in password : TRUE, salt)
                         ELSE user.hashed_password,
     is_admin |-> IF is_admin # None THEN CHOOSE v \in is_admin : TRUE ELSE user.is_admin]
Updated(user, username, email, password, salt, is_admin) ==
    [id |-> user.id,
     username |-> IF Supplied(username) THEN CHOOSE v \in username : TRUE ELSE user.username,
     email |-> IF Supplied(email) THEN CHOOSE v \in email : TRUE ELSE user.email,
     hashed_password |-> IF Supplied(password)
                         THEN get_password_hash(CHOOSE v \in password : TRUE, salt)
                         ELSE user.hashed_password,
     is_admin |-> IF is_admin # None THEN CHOOSE v \in is_admin : TRUE ELSE user.is_admin]

\* PUT /users/{id}: "Regular users cannot change their admin status": a
\* supplied is_admin is replaced by that of current_user, the row the guard
\* returned.  PUT /admin/users/{id} passes the body's value on.
OwnAdminStatus_passed_on(r, is_admin) == is_admin
OwnAdminStatus(r, is_admin) ==
    IF r.kind = "update_existing_user" /\ is_admin # None
    THEN {cu.is_admin : cu \in r.principal}
    ELSE is_admin

update_user(c, In) ==
    /\ InCommit(c, {"update_existing_user", "admin_update_user"})
    /\ \E username \in In.upd_username, email \in In.upd_email, password \in In.upd_password,
          salt \in Salts, is_admin_in \in In.upd_is_admin :
         LET row == get_user_by_id(users, req[c].target)
             is_admin == OwnAdminStatus(req[c], is_admin_in)
             body == [req[c] EXCEPT !.is_admin = is_admin_in,
                                    !.username = username, !.email = email,
                                    !.pw = IF password = None THEN ""
                                           ELSE CHOOSE v \in password : TRUE] IN
         IF row = None
         THEN /\ req' = [req EXCEPT ![c] = Finish(body, 500)]
              /\ UNCHANGED users
         ELSE LET old == CHOOSE u \in row : TRUE
                  new == Updated(old, username, email, password, salt, is_admin)
                  tbl == (users \ {old}) \cup {new} IN
              IF UniqueOK(tbl)
              THEN /\ users' = tbl
                   /\ req' = [req EXCEPT ![c] = Finish(body, 200)]
              ELSE /\ req' = [req EXCEPT ![c] = Finish(body, 500)]
                   /\ UNCHANGED users
    /\ UNCHANGED <<admins, next_id, now, held, desk>>

\* delete_user: delete the row by primary key, commit.
delete_user(c) ==
    /\ InCommit(c, {"delete_existing_user", "admin_delete_user"})
    /\ users' = {u \in users : u.id # req[c].target}
    /\ req' = [req EXCEPT ![c] = Finish(@, 200)]
    /\ UNCHANGED <<admins, next_id, now, held, desk>>

\* frontend logout_user: the session drops its token; nothing is sent to
\* the service.
logout_user ==
    /\ \A c \in Clients : req[c].pc # "done"
    /\ \E h \in held : held' = held \ {h}
    /\ UNCHANGED <<users, admins, next_id, now, req, desk>>

\* The answer has been delivered; the worker is free again.
Respond(c) ==
    /\ req[c].pc = "done"
    /\ req' = [req EXCEPT ![c] = Idle]
    /\ UNCHANGED <<users, admins, next_id, now, held, desk>>

NextOver(CS, In) ==
    \/ Tick
    \/ \E c \in CS : Respond(c)
    \/ logout_user
    \/ \E c \in CS : Request(c, In)
    \/ \E c \in CS : Resolve(c)
    \/ \E c \in CS : read_current_user(c)
    \/ \E c \in CS : read_current_admin(c)
    \/ \E c \in CS : admin_get_all_users(c)
    \/ \E c \in CS : admin_get_user_by_id(c)
    \/ \E c \in CS : login_for_access_token(c, In)
    \/ \E c \in CS : admin_login_for_access_token(c, In)
    \/ \E c \in CS : create_new_user(c, In)
    \/ \E c \in CS : admin_create_user(c, In)
    \/ \E c \in CS : admin_update_user(c)
    \/ \E c \in CS : admin_delete_user(c)
    \/ \E c \in CS : update_existing_user(c)
    \/ \E c \in CS : delete_existing_user(c)
    \/ \E c \in CS : create_user(c, In)
    \/ \E c \in CS : update_user(c, In)
    \/ \E c \in CS : delete_user(c)

\* One client at a time: requests are handled one after the other.
Next == NextOver(SeqClients, AuthIn)
Spec == Init /\ [][Next]_vars

\* Two clients whose requests interleave at every database access: users
\* register, log in, read, update and delete their own account while an
\* admin changes the elevated flag of accounts or deletes them.
ConcIn ==
    [kinds |-> {"create_new_user", "login_for_access_token", "admin_login_for_access_token",
                "read_current_user", "update_existing_user", "delete_existing_user",
                "admin_update_user", "admin_delete_user"},
     bad_tokens |-> FALSE,
     usernames |-> {"alice"}, login_passwords |-> {"pw1"},
     new_email |-> [u \in Usernames |-> IF u = "alice" THEN {"a@x.com"} ELSE {"b@x.com"}],
     new_password |-> {"pw1"}, new_is_admin |-> {FALSE},
     upd_username |-> {None}, upd_email |-> {None},
     upd_password |-> {None}, upd_is_admin |-> Opt(BOOLEAN)]

NextConc ==
    \/ \E c \in Clients : Respond(c)
    \/ \E c \in Clients : Request(c, ConcIn)
    \/ \E c \in Clients : Resolve(c)
    \/ \E c \in Clients : read_current_user(c)
    \/ \E c \in Clients : login_for_access_token(c, ConcIn)
    \/ \E c \in Clients : admin_login_for_access_token(c, ConcIn)
    \/ \E c \in Clients : create_new_user(c, ConcIn)
    \/ \E c \in Clients : admin_update_user(c)
    \/ \E c \in Clients : admin_delete_user(c)
    \/ \E c \in Clients : update_existing_user(c)
    \/ \E c \in Clients : delete_existing_user(c)
    \/ \E c \in Clients : create_user(c, ConcIn)
    \/ \E c \in Clients : update_user(c, ConcIn)
    \/ \E c \in Clients : delete_user(c)
SpecConc == Init /\ [][NextConc]_vars
\* The worker that runs a request's guard runs it to completion.
SpecLive == SpecConc /\ \A c \in Clients : WF_vars(Resolve(c))

\* Tables that hold rows written before the service's hasher was in use: the
\* stored hash of admin carol is truncated, that of user alice is of a
\* foreign format.  An admin resets passwords, users register and log in.
TruncatedHash == [salt |-> "s1", digest |-> <<"bcrypt", "s1">>]
ForeignHash == [salt |-> "s1", digest |-> <<"md5", "s1", "pw1">>]
InitLegacy ==
    /\ users = { [id |-> 1, username |-> "alice", email |-> "a@x.com",
                  hashed_password |-> ForeignHash, is_admin |-> FALSE] }
    /\ admins = { IF a.username = "carol" THEN [a EXCEPT !.hashed_password = TruncatedHash]
                  ELSE a : a \in InitAdmins }
    /\ next_id = 2
    /\ now = 0
    /\ held = {}
    /\ req = [c \in Clients |-> Idle]
    /\ session = NoSession
    /\ screen = Closed
    /\ launcher = AtMenu
LegacyIn ==
    [kinds |-> {"create_new_user", "login_for_access_token", "admin_login_for_access_token",
                "read_current_user", "read_current_admin", "admin_update_user"},
     bad_tokens |-> FALSE,
     usernames |-> Usernames, login_passwords |-> Passwords,
     new_email |-> [u \in Usernames |-> IF u = "alice" THEN {"a@x.com"} ELSE {"b@x.com"}],
     new_password |-> {"pw1"}, new_is_admin |-> {FALSE},
     upd_username |-> {None}, upd_email |-> {None},
     upd_password |-> Opt({"pw2"}), upd_is_admin |-> {None}]
NextLegacy ==
    \/ \E c \in SeqClients : Respond(c)
    \/ \E c \in SeqClients : Request(c, LegacyIn)
    \/ \E c \in SeqClients : Resolve(c)
    \/ \E c \in SeqClients : read_current_user(c)
    \/ \E c \in SeqClients : read_current_admin(c)
    \/ \E c \in SeqClients : login_for_access_token(c, LegacyIn)
    \/ \E c \in SeqClients : admin_login_for_access_token(c, LegacyIn)
    \/ \E c \in SeqClients : create_new_user(c, LegacyIn)
    \/ \E c \in SeqClients : admin_update_user(c)
    \/ \E c \in SeqClients : create_user(c, LegacyIn)
    \/ \E c \in SeqClients : update_user(c, LegacyIn)
SpecLegacy == InitLegacy /\ [][NextLegacy]_vars

\* One client whose requests carry every value of the password and is_admin
\* fields: users register, log in, change their password, read and delete
\* their account; an admin changes passwords and the is_admin flag.
DataIn ==
    [kinds |-> {"create_new_user", "login_for_access_token", "admin_login_for_access_token",
                "read_current_user", "update_existing_user", "delete_existing_user",
                "admin_update_user"},
     bad_tokens |-> FALSE,
     usernames |-> {"alice"}, login_passwords |-> Passwords,
     new_email |-> [u \in Usernames |-> IF u = "alice" THEN {"a@x.com"} ELSE {"b@x.com"}],
     new_password |-> {"pw1"}, new_is_admin |-> BOOLEAN,
     upd_username |-> {None}, upd_email |-> {None},
     upd_password |-> Opt(Passwords), upd_is_admin |-> Opt(BOOLEAN)]

NextData ==
    \/ Tick
    \/ logout_user
    \/ \E c \in SeqClients : Respond(c)
    \/ \E c \in SeqClients : Request(c, DataIn)
    \/ \E c \in SeqClients : Resolve(c)
    \/ \E c \in SeqClients : read_current_user(c)
    \/ \E c \in SeqClients : login_for_access_token(c, DataIn)
    \/ \E c \in SeqClients : admin_login_for_access_token(c, DataIn)
    \/ \E c \in SeqClients : create_new_user(c, DataIn)
    \/ \E c \in SeqClients : admin_update_user(c)
    \/ \E c \in SeqClients : update_existing_user(c)
    \/ \E c \in SeqClients : delete_existing_user(c)
    \/ \E c \in SeqClients : create_user(c, DataIn)
    \/ \E c \in SeqClients : update_user(c, DataIn)
    \/ \E c \in SeqClients : delete_user(c)
SpecData == Init /\ [][NextData]_vars

\* Two clients whose create and update requests interleave at every database
\* access and carry colliding usernames and emails.
RaceIn ==
    [kinds |-> {"create_new_user", "admin_create_user", "login_for_access_token",
                "admin_login_for_access_token", "update_existing_user", "admin_update_user"},
     bad_tokens |-> FALSE,
     usernames |-> Usernames, login_passwords |-> {"pw1"},
     new_email |-> [u \in Usernames |-> IF u = "alice" THEN {"a@x.com"}
                                        ELSE {"a@x.com", "b@x.com"}],
     new_password |-> {"pw1"}, new_is_admin |-> {FALSE},
     upd_username |-> Opt(Usernames), upd_email |-> Opt({"a@x.com"}),
     upd_password |-> {None}, upd_is_admin |-> {None}]

NextRace ==
    \/ \E c \in Clients : Respond(c)
    \/ \E c \in Clients : Request(c, RaceIn)
    \/ \E c \in Clients : Resolve(c)
    \/ \E c \in Clients : login_for_access_token(c, RaceIn)
    \/ \E c \in Clients : admin_login_for_access_token(c, RaceIn)
    \/ \E c \in Clients : create_new_user(c, RaceIn)
    \/ \E c \in Clients : admin_create_user(c, RaceIn)
    \/ \E c \in Clients : admin_update_user(c)
    \/ \E c \in Clients : update_existing_user(c)
    \/ \E c \in Clients : create_user(c, RaceIn)
    \/ \E c \in Clients : update_user(c, RaceIn)
SpecRace == Init /\ [][NextRace]_vars

\* One client whose updates carry every shape of the UserUpdate body: each
\* of username and password absent, empty or set, email absent or set (an
\* empty email is refused by EmailStr before the handler runs), is_admin
\* absent, false or true.  The dashboard's update_user drops the empty fields
\* and sends the rest, so its requests are the ones without an empty field.
FrameIn ==
    [kinds |-> {"create_new_user", "login_for_access_token", "admin_login_for_access_token",
                "update_existing_user", "admin_update_user"},
     bad_tokens |-> FALSE,
     usernames |-> Usernames, login_passwords |-> {"pw1"},
     new_email |-> [u \in Usernames |-> IF u = "alice" THEN {"a@x.com"} ELSE {"b@x.com"}],
     new_password |-> {"pw1"}, new_is_admin |-> {FALSE},
     upd_username |-> {None, Some(""), Some("root")},
     upd_email |-> {None, Some("c@x.com")},
     upd_password |-> {None, Some(""), Some("pw2")},
     upd_is_admin |-> Opt(BOOLEAN)]

NextFrame ==
    \/ \E c \in SeqClients : Respond(c)
    \/ \E c \in SeqClients : Request(c, FrameIn)
    \/ \E c \in SeqClients : Resolve(c)
    \/ \E c \in SeqClients : login_for_access_token(c, FrameIn)
    \/ \E c \in SeqClients : admin_login_for_access_token(c, FrameIn)
    \/ \E c \in SeqClients : create_new_user(c, FrameIn)
    \/ \E c \in SeqClients : admin_update_user(c)
    \/ \E c \in SeqClients : update_existing_user(c)
    \/ \E c \in SeqClients : create_user(c, FrameIn)
    \/ \E c \in SeqClients : update_user(c, FrameIn)
SpecFrame == Init /\ [][NextFrame]_vars

\* ------------------------------------------------ dashboard (frontend.py)
\* One browser session of the Streamlit dashboard.  A widget interaction runs
\* the script from the top with the widget's value; st.rerun() abandons that
\* run and starts the next; the screen is what the last run rendered.  The
\* dashboard calls the service at API_BASE_URL (port 8000), which is not the
\* port the launcher starts its backend on (8001): whether a call is answered
\* at all is an input of every script run (up).
SidebarPages == {"Dashboard", "User Management", "Create User", "Update User",
                 "Delete User", "My Profile"}
QuickPages == {"Create User", "Update User", "Delete User"}

\* GET /me with the session's token: the user's data, or None.
get_current_user_info(sess, up) ==
    /\ up
    /\ \E tok \in sess.access_token :
          LET d == decode(tok, now) IN
          d.err = "ok" /\ get_user_by_username(users, d.sub) # None

\* main(): the sidebar sets page from the selectbox when a token is held and
\* to "Login" otherwise; the routing looks at st.session_state.page first.
\* A selectbox choice that no branch of the routing names renders nothing.
main(sess, choice, up) ==
    LET page == IF sess.access_token # None THEN choice ELSE "Login"
        kept == IF sess.access_token # None THEN choice ELSE "Dashboard" IN
    IF \E p \in sess.page : p \in QuickPages
    THEN [choice |-> kept, page |-> CHOOSE p \in sess.page : TRUE, info |-> FALSE]
    ELSE IF page = "Login"
    THEN [choice |-> kept, page |-> "Login", info |-> FALSE]
    ELSE IF page \in {"Dashboard", "User Management", "My Profile"}
    THEN [choice |-> kept, page |-> page, info |-> get_current_user_info(sess, up)]
    ELSE [choice |-> kept, page |-> "blank", info |-> FALSE]

OnScreen == launcher.frontend = "running"

\* show_login_page's form -> login_user: POST /login; on 200 the token and
\* the username are stored and the script is rerun.
login_user(username, password) ==
    /\ OnScreen /\ screen.page = "Login"
    /\ \E up \in BOOLEAN, again \in BOOLEAN :
         LET user == authenticate_user(users, username, password) IN
         IF up /\ user # None
         THEN LET u == CHOOSE x \in user : TRUE
                  access_token == create_access_token(TokenData(u), access_token_expires, now)
                  sess == [session EXCEPT !.access_token = Some(access_token),
                                          !.current_user = Some(username)] IN
              /\ session' = sess
              /\ screen' = main(sess, screen.choice, again)
         ELSE /\ screen' = main(session, screen.choice, up)
              /\ UNCHANGED session
    /\ UNCHANGED <<users, admins, next_id, now, held, req, launcher>>

\* logout_user(): both keys are set to None and the script is rerun.
LoggedOut(sess) == [sess EXCEPT !.access_token = None, !.current_user = None]

\* The sidebar's Logout button, rendered by every run that holds a token.
SidebarLogout ==
    /\ OnScreen /\ session.access_token # None
    /\ session' = LoggedOut(session)
    /\ \E up \in BOOLEAN : screen' = main(LoggedOut(session), screen.choice, up)
    /\ UNCHANGED <<users, admins, next_id, now, held, req, launcher>>

\* The Logout button of My Profile, rendered when GET /me answered.
ProfileLogout ==
    /\ OnScreen /\ screen.page = "My Profile" /\ screen.info
    /\ \E up \in BOOLEAN, again \in BOOLEAN :
         IF get_current_user_info(session, up)
         THEN /\ session' = LoggedOut(session)
              /\ screen' = main(LoggedOut(session), screen.choice, again)
         ELSE /\ screen' = main(session, screen.choice, up)
              /\ UNCHANGED session
    /\ UNCHANGED <<users, admins, next_id, now, held, req, launcher>>

\* The sidebar's selectbox.
SelectPage(p) ==
    /\ OnScreen /\ session.access_token # None
    /\ \E up \in BOOLEAN : screen' = main(session, p, up)
    /\ UNCHANGED <<users, admins, next_id, now, held, req, session, launcher>>

\* show_dashboard's quick-action buttons, rendered when GET /me answered.
QuickAction(p) ==
    /\ OnScreen /\ screen.page = "Dashboard" /\ screen.info
    /\ \E up \in BOOLEAN, again \in BOOLEAN :
         IF get_current_user_info(session, up)
         THEN /\ session' = [session EXCEPT !.page = Some(p)]
              /\ screen' = main([session EXCEPT !.page = Some(p)], screen.choice, again)
         ELSE /\ screen' = main(session, screen.choice, up)
              /\ UNCHANGED session
    /\ UNCHANGED <<users, admins, next_id, now, held, req, launcher>>

\* "Back to Dashboard" on the Create, Update and Delete User pages.
BackToDashboard ==
    /\ OnScreen /\ screen.page \in QuickPages
    /\ session' = [session EXCEPT !.page = None]
    /\ \E up \in BOOLEAN : screen' = main([session EXCEPT !.page = None], screen.choice, up)
    /\ UNCHANGED <<users, admins, next_id, now, held, req, launcher>>

\* Any other interaction ("Refresh Profile", a form that writes no session
\* key) runs the script again.
Refresh ==
    /\ OnScreen
    /\ \E up \in BOOLEAN : screen' = main(session, screen.choice, up)
    /\ UNCHANGED <<users, admins, next_id, now, held, req, session, launcher>>

\* ---------------------------------------------------- launcher (run_app.py)
\* launcher.pc is the line main() is at: "input" (81), "run_backend" (84),
\* "run_frontend" (87), "sleep_backend" (95), "sleep_frontend" (100-102,
\* backend_process is set), "frontend" (106), "finally" (110), "wait" (112),
\* "exited".  backend is the uvicorn child: "none", "running", "exited" (gone
\* but not waited for), "terminated" (terminate() called), "reaped" (waited
\* for).  raised: an Exception is in flight through the finally block.
Opened == main(NoSession, "Dashboard", FALSE)

\* input() and the branch taken on the choice; an invalid choice asks again.
Choose(choice) ==
    /\ launcher.pc = "input"
    /\ CASE choice = "1" ->
               /\ launcher' = [launcher EXCEPT !.pc = "run_backend", !.backend = "running"]
               /\ UNCHANGED <<session, screen>>
         [] choice = "2" ->
               /\ launcher' = [launcher EXCEPT !.pc = "run_frontend", !.frontend = "running"]
               /\ session' = NoSession /\ screen' = Opened
         [] choice = "3" ->
               /\ launcher' = [launcher EXCEPT !.pc = "sleep_backend"]
               /\ UNCHANGED <<session, screen>>
         [] choice = "4" ->
               /\ launcher' = [launcher EXCEPT !.pc = "exited"]
               /\ UNCHANGED <<session, screen>>
         [] OTHER -> UNCHANGED <<launcher, session, screen>>
    /\ UNCHANGED <<users, admins, next_id, now, held, req>>

\* Option 3, line 98: Popen returns the running child, or raises (the outer
\* except Exception prints the error and the loop asks again).
StartBackend ==
    /\ launcher.pc = "sleep_backend"
    /\ \E started \in BOOLEAN :
         launcher' = IF started
                     THEN [launcher EXCEPT !.pc = "sleep_frontend", !.backend = "running"]
                     ELSE [launcher EXCEPT !.pc = "input"]
    /\ UNCHANGED <<users, admins, next_id, now, held, req, session, screen>>

\* Option 3, line 106: subprocess.run starts streamlit and blocks, or raises.
StartFrontend ==
    /\ launcher.pc = "sleep_frontend"
    /\ \E started \in BOOLEAN :
         IF started
         THEN /\ launcher' = [launcher EXCEPT !.pc = "frontend", !.frontend = "running"]
              /\ session' = NoSession /\ screen' = Opened
         ELSE /\ launcher' = [launcher EXCEPT !.pc = "finally", !.raised = TRUE]
              /\ UNCHANGED <<session, screen>>
    /\ UNCHANGED <<users, admins, next_id, now, held, req>>

\* The child a subprocess.run is blocked on ends by itself: run returns.
ChildExits ==
    /\ launcher.pc \in {"run_backend", "run_frontend", "frontend"}
    /\ launcher' =
         CASE launcher.pc = "run_backend" -> [launcher EXCEPT !.pc = "exited", !.backend = "reaped"]
           [] launcher.pc = "run_frontend" -> [launcher EXCEPT !.pc = "exited", !.frontend = "none"]
           [] OTHER -> [launcher EXCEPT !.pc = "finally", !.frontend = "none"]
    /\ session' = NoSession /\ screen' = Closed
    /\ UNCHANGED <<users, admins, next_id, now, held, req>>

\* Option 3: the Popen child ends by itself (its port is taken, it crashes).
BackendExits ==
    /\ launcher.pc \in {"sleep_frontend", "frontend", "finally"}
    /\ launcher.backend = "running"
    /\ launcher' = [launcher EXCEPT !.backend = "exited"]
    /\ UNCHANGED <<users, admins, next_id, now, held, req, session, screen>>

\* finally, line 111: backend_process.terminate().
Terminate ==
    /\ launcher.pc = "finally"
    /\ launcher' = [launcher EXCEPT !.pc = "wait",
                                    !.backend = IF @ = "running" THEN "terminated" ELSE @]
    /\ UNCHANGED <<users, admins, next_id, now, held, req, session, screen>>

\* finally, line 112: backend_process.wait(); then break, or the Exception
\* that was in flight reaches the outer except and the loop asks again.
Wait ==
    /\ launcher.pc = "wait"
    /\ launcher' = [launcher EXCEPT !.pc = IF launcher.raised THEN "input" ELSE "exited",
                                    !.backend = "reaped", !.raised = FALSE]
    /\ UNCHANGED <<users, admins, next_id, now, held, req, session, screen>>

\* Ctrl+C reaches the launcher.  Inside subprocess.run the child is killed
\* and waited for and the except KeyboardInterrupt around it is entered
\* (run_backend 23, run_frontend 38, option 3 107); anywhere else in the
\* loop the outer except KeyboardInterrupt (120-122) calls sys.exit(0).
KeyboardInterrupt ==
    /\ launcher.pc # "exited"
    /\ launcher' =
         CASE launcher.pc = "run_backend" -> [launcher EXCEPT !.pc = "exited", !.backend = "reaped"]
           [] launcher.pc = "run_frontend" -> [launcher EXCEPT !.pc = "exited", !.frontend = "none"]
           [] launcher.pc = "frontend" -> [launcher EXCEPT !.pc = "finally", !.frontend = "none"]
           [] OTHER -> [launcher EXCEPT !.pc = "exited", !.raised = FALSE]
    /\ IF launcher.frontend = "running"
       THEN session' = NoSession /\ screen' = Closed
       ELSE UNCHANGED <<session, screen>>
    /\ UNCHANGED <<users, admins, next_id, now, held, req>>

\* The desk of one operator: the launcher, the dashboard it starts, and a
\* users table with one registered user.
InitDesk ==
    /\ users = { [id |-> 1, username |-> "alice", email |-> "a@x.com",
                  hashed_password |-> get_password_hash("pw1", "s1"), is_admin |-> FALSE] }
    /\ admins = InitAdmins
    /\ next_id = 2
    /\ now = 0
    /\ held = {}
    /\ req = [c \in Clients |-> Idle]
    /\ session = NoSession
    /\ screen = Closed
    /\ launcher = AtMenu

NextDesk ==
    \/ Tick
    \/ \E choice \in {"1", "2", "3", "4", "x"} : Choose(choice)
    \/ StartBackend
    \/ StartFrontend
    \/ ChildExits
    \/ BackendExits
    \/ Terminate
    \/ Wait
    \/ KeyboardInterrupt
    \/ \E username \in Usernames, password \in Passwords : login_user(username, password)
    \/ SidebarLogout
    \/ ProfileLogout
    \/ \E p \in SidebarPages : SelectPage(p)
    \/ \E p \in QuickPages : QuickAction(p)
    \/ BackToDashboard
    \/ Refresh
SpecDesk == InitDesk /\ [][NextDesk]_vars

\* ======================================================================
\* Properties
\* ======================================================================
UserEndpoints == {"read_current_user", "update_existing_user", "delete_existing_user"}
ElevatedEndpoints == {"admin_create_user", "admin_update_user", "admin_delete_user",
                      "admin_get_all_users", "admin_get_user_by_id"}
AdminEndpoints == {"read_current_admin"} \cup ElevatedEndpoints
GuardedEndpoints == UserEndpoints \cup AdminEndpoints
ProtectedMutating == {"update_existing_user", "delete_existing_user", "admin_create_user",
                      "admin_update_user", "admin_delete_user"}
Logins == {"login_for_access_token", "admin_login_for_access_token"}
Subjects == Usernames \cup AdminNames
Lifetimes == {1, ACCESS_TOKEN_EXPIRE_MINUTES, 2 * ACCESS_TOKEN_EXPIRE_MINUTES}
AuthFailures == {"Malformed", "BadSignature", "Expired", "PrincipalNotFound"}

\* The handler of the request has been entered (the guard let it through).
Authorised(r) == r.pc \in {"body", "commit"} \/ (r.pc = "done" /\ r.err = "")
\* Signature and expiry of the token of r, at the time it was decoded.
TokenValidWhenDecoded(r) ==
    /\ VerifiesUnder(r.tok, SECRET_KEY, ALGORITHM)
    /\ r.at < r.tok[2].exp
UserIds == {u.id : u \in users}

\* C1: a request to a guarded endpoint is authorised only if, when its token
\* was decoded, the signature verified under the configured secret and the
\* time was before the token's expiry.
C1_AuthorisedOnlyWithValidToken ==
    \A c \in Clients :
        (req[c].kind \in GuardedEndpoints /\ Authorised(req[c]))
            => TokenValidWhenDecoded(req[c])
C1_Witness ==
    \E c \in Clients :
        /\ req[c].kind = "read_current_user" /\ req[c].pc = "done" /\ req[c].status = 200
        /\ req[c].at > 0

\* C2: a step of a protected mutating request that holds no principal (its
\* guard has not returned one) leaves the user table as it was.
C2_NoPrincipalNoMutation ==
    [][\A c \in Clients :
          (req'[c] # req[c] /\ req'[c].kind \in ProtectedMutating /\ req'[c].principal = None)
              => users' = users]_vars
C2_Witness ==
    \E c \in Clients :
        /\ req[c].kind \in ProtectedMutating /\ req[c].pc = "done"
        /\ req[c].status = 401 /\ req[c].principal = None
        /\ users # {}

\* C3: GET /admin/me lets every resolved admin through whatever its
\* super-admin flag; the /admin/users endpoints let a resolved admin through
\* when the flag is true and answer 403 Forbidden (not 401) when it is false.
C3_AdminGuards ==
    \A c \in Clients :
        LET r == req[c]
            a == {x \in admins : x.username = r.sub} IN
        (r.kind \in AdminEndpoints /\ r.pc \in {"body", "commit", "done"} /\ a # {})
            => /\ r.kind = "read_current_admin" => (r.principal = a /\ r.err = "")
               /\ r.kind \in ElevatedEndpoints =>
                    IF \A x \in a : x.is_super_admin
                    THEN r.principal = a /\ r.err = ""
                    ELSE r.pc = "done" /\ r.status = 403 /\ r.err = "Forbidden"
C3_Witness ==
    \E c \in Clients :
        /\ req[c].kind \in ElevatedEndpoints /\ req[c].sub = "carol"
        /\ req[c].status = 403

\* C4: a token issued at time t by either login carries the expiry
\* t + ACCESS_TOKEN_EXPIRE_MINUTES; decoding it fails with Expired at every
\* time >= t + L and succeeds at every time before.
C4_ExpiryIsIssuePlusLifetime ==
    /\ \A c \in Clients :
          (req[c].kind \in Logins /\ req[c].pc = "done" /\ req[c].status = 200)
              => req[c].out[2].exp = now + ACCESS_TOKEN_EXPIRE_MINUTES
    /\ \A h \in held :
          /\ h.tok[2].exp = h.at + ACCESS_TOKEN_EXPIRE_MINUTES
          /\ now >= h.at + ACCESS_TOKEN_EXPIRE_MINUTES => decode(h.tok, now).err = "Expired"
          /\ now < h.at + ACCESS_TOKEN_EXPIRE_MINUTES => decode(h.tok, now).err = "ok"
C4_Witness ==
    \E h \in held :
        now >= h.at + ACCESS_TOKEN_EXPIRE_MINUTES /\ decode(h.tok, now).err = "Expired"

\* C5 (as claimed): once the user a token was issued for has been deleted,
\* every later resolution of the token by a user guard fails with
\* PrincipalNotFound.
C5_DeletedNeverResolves ==
    [][\A c \in Clients :
          (/\ req[c].pc = "resolving" /\ req'[c].pc # "resolving"
           /\ req[c].kind \in UserEndpoints
           /\ \E h \in held : h.tok = req[c].tok /\ h.via = "login" /\ h.id \notin UserIds)
              => req'[c].err = "PrincipalNotFound"]_vars

\* C6: the authorization decision of a request is derived from the tables as
\* they are when its guard looks the principal up (one lookup; a deletion or
\* a change of the elevated flag committed before is seen), and once the
\* guard has returned, no step of any request changes that decision or the
\* principal the handler works with.
C6_FreshAtLookup(c) ==
    (req[c].pc = "resolving" /\ req'[c].pc # "resolving")
        => LET r == req'[c]
               tbl == IF r.kind \in UserEndpoints THEN users ELSE admins
               rows == {x \in tbl : x.username = req[c].sub} IN
           /\ r.lookups = 1
           /\ IF rows = {}
              THEN r.pc = "done" /\ r.status = 401 /\ r.principal = None
              ELSE IF r.kind \in ElevatedEndpoints /\ \E x \in rows : ~x.is_super_admin
              THEN r.pc = "done" /\ r.status = 403 /\ r.principal = None
              ELSE r.pc = "body" /\ r.principal = rows
C6_NotRetroactive(c) ==
    (req[c].pc \in {"body", "commit"} /\ req[c].kind \in GuardedEndpoints)
        => /\ req'[c].pc \in {"body", "commit", "done"}
           /\ req'[c].principal = req[c].principal
           /\ req'[c].lookups = 1
           /\ req'[c].err = ""
C6_FreshPerRequest ==
    [][\A c \in Clients : C6_FreshAtLookup(c) /\ C6_NotRetroactive(c)]_vars
C6_Witness ==
    \E c \in Clients :
        /\ req[c].kind \in UserEndpoints /\ req[c].pc = "commit"
        /\ \E p \in req[c].principal, u \in users :
              u.id = p.id /\ u.is_admin # p.is_admin

\* C7: every authentication-stage failure (malformed, bad signature, expired,
\* principal not found) gives the caller the same answer, 401 with nothing
\* else; 403 is answered only to a request whose token authenticated, and by
\* a guard only to a non-super admin on an endpoint that needs the flag.
Answer(r) == [status |-> r.status, principal |-> r.principal, out |-> r.out,
              target |-> r.target, arg |-> r.arg]
Unauthenticated == [status |-> 401, principal |-> None, out |-> NoToken,
                    target |-> 0, arg |-> ""]
C7_UniformUnauthenticated ==
    \A c \in Clients :
        LET r == req[c] IN
        (r.kind \in GuardedEndpoints /\ r.pc = "done")
            => /\ r.err \in AuthFailures => Answer(r) = Unauthenticated
               /\ r.status = 401 => r.err \in AuthFailures
               /\ r.status = 403 => TokenValidWhenDecoded(r)
               /\ r.err = "Forbidden" =>
                    /\ r.status = 403 /\ r.kind \in ElevatedEndpoints
                    /\ \E x \in admins : x.username = r.sub /\ ~x.is_super_admin
C7_Witness ==
    \E c \in Clients :
        /\ req[c].kind \in GuardedEndpoints /\ req[c].pc = "done"
        /\ req[c].err = "Expired" /\ req[c].status = 401

\* C8: decoding a well-formed token whose signature does not verify under the
\* configured secret (an issued token with altered header, payload or
\* signature; a token signed with another secret) fails with BadSignature,
\* also when the token is expired as well; it never succeeds.
C8_BadSignatureRejected ==
    /\ \A t \in KnownTokens : \A bad \in Altered(t) \cup {SelfSigned(now)} :
          decode(bad, now).err = "BadSignature"
    /\ \A t \in KnownTokens : \A k \in {OtherSecret, "S1"} :
          decode(Encode(t[2], k, ALGORITHM), now).err = "BadSignature"
C8_Witness ==
    \E c \in Clients :
        /\ req[c].err = "BadSignature" /\ req[c].status = 401
        /\ \E h \in held : now >= h.tok[2].exp

\* C9: decoding a token right after it was issued, under the same secret and
\* algorithm, succeeds and returns the subject it was issued for: for every
\* subject and positive lifetime, and for the token each login returns.
C9_RoundTrip ==
    /\ \A sub \in Subjects, L \in Lifetimes :
          decode(create_access_token([sub |-> sub], L, now), now) = [err |-> "ok", sub |-> sub]
    /\ \A c \in Clients :
          (req[c].kind \in Logins /\ req[c].pc = "done" /\ req[c].status = 200)
              => decode(req[c].out, now) = [err |-> "ok", sub |-> req[c].arg]
C9_Witness ==
    \E c \in Clients :
        /\ req[c].kind = "admin_login_for_access_token" /\ req[c].pc = "done"
        /\ req[c].status = 200 /\ req[c].arg = "carol"

\* C10: a login answers 200 with a token whose subject is the supplied
\* username exactly when a principal of that name exists and the supplied
\* password verifies against its stored hash; otherwise it answers 401,
\* returns no token and changes nothing stored.
C10_LoginIffVerified ==
    [][\A c \in Clients :
          (req[c].pc = "body" /\ req[c].kind \in Logins /\ req'[c].pc = "done")
              => LET r == req'[c]
                     tbl == IF r.kind = "login_for_access_token" THEN users ELSE admins
                     ok == \E p \in tbl : /\ p.username = r.arg
                                          /\ verify_password(r.pw, p.hashed_password) IN
                 IF ok
                 THEN /\ r.status = 200
                      /\ decode(r.out, now) = [err |-> "ok", sub |-> r.arg]
                 ELSE /\ r.status = 401 /\ r.out = NoToken
                      /\ UNCHANGED <<users, admins, next_id, held>>]_vars
C10_Witness ==
    \E c \in Clients :
        /\ req[c].kind = "login_for_access_token" /\ req[c].pc = "done"
        /\ req[c].status = 401
        /\ \E u \in users : u.username = req[c].arg
\* C11: no step revokes a token: every token a client holds that is before
\* its embedded expiry after the step decodes successfully then, whatever the
\* step was (a later login, a password change by update_user, the frontend's
\* logout dropping it); and a request presenting an issued token is rejected
\* by the codec only as Expired, at or after the token's expiry.
C11_NoRevocation ==
    [][/\ \A h \in held :
             now' < h.tok[2].exp => (decode(h.tok, now).err = "ok")'
       /\ \A c \in Clients :
             (req[c].pc = "idle" /\ req'[c].kind \in GuardedEndpoints
                /\ req'[c].pc = "done" /\ req'[c].lookups = 0)
                 => /\ req'[c].err = "Expired"
                    /\ \E h \in held : now >= h.tok[2].exp]_vars
C11_Witness ==
    \E c \in Clients :
        /\ req[c].kind = "read_current_user" /\ req[c].pc = "done" /\ req[c].status = 200
        /\ \E h \in held, p \in req[c].principal :
              /\ h.tok = req[c].tok /\ h.via = "login" /\ h.at < now
              /\ p.id = h.id /\ p.hashed_password # h.hash
\* C12: in every reachable state no two rows of the user table share a
\* username and no two share an email, under every interleaving of create and
\* update requests; and a create request goes on to its insert only from a
\* check that found no row with its username.
Creates == {"create_new_user", "admin_create_user"}
Updates == {"update_existing_user", "admin_update_user"}
UniqueUsers ==
    \A u, v \in users : u # v => u.username # v.username /\ u.email # v.email
C12_UniqueUsernameAndEmail ==
    /\ []UniqueUsers
    /\ [][\A c \in Clients :
             (req[c].pc = "body" /\ req'[c].pc = "commit" /\ req[c].kind \in Creates)
                 => \A u \in users : u.username # req'[c].arg]_vars
C12_Witness ==
    /\ Cardinality(users) = 2
    /\ \E c \in Clients :
          /\ req[c].kind \in Updates /\ req[c].pc = "done" /\ req[c].status = 500
    /\ \E c \in Clients :
          /\ req[c].kind \in Creates /\ req[c].pc = "done" /\ req[c].status = 500
\* C13: the authorization of a request to a guarded endpoint goes
\* NoToken -> (decode) -> Resolving -> Authorized | Rejected, or
\* NoToken -> (decode fails) -> Rejected: a request that is resolving reaches
\* Authorized or Rejected; a request stays in the terminal state it reached
\* until it is answered; Authorized is entered only from Resolving, with a
\* valid token and a principal found; a step of one request changes no other
\* request.
AuthState(r) ==
    CASE r.pc = "idle" -> "NoToken"
      [] r.pc = "resolving" -> "Resolving"
      [] r.pc = "done" /\ r.err # "" -> "Rejected"
      [] OTHER -> "Authorized"
Terminal == {"Authorized", "Rejected"}
C13_Step(c) ==
    LET r == req[c]
        n == req'[c] IN
    (n # r /\ n.kind \in GuardedEndpoints) =>
        /\ AuthState(r) = "NoToken" => AuthState(n) \in {"Resolving", "Rejected"}
        /\ AuthState(r) = "Resolving" => AuthState(n) \in Terminal
        /\ AuthState(r) \in Terminal => AuthState(n) = AuthState(r)
        /\ (AuthState(r) # "Authorized" /\ AuthState(n) = "Authorized")
              => /\ AuthState(r) = "Resolving"
                 /\ TokenValidWhenDecoded(n) /\ n.principal # None
        /\ \A d \in Clients \ {c} : req'[d] = req[d]
PlainTexts == Passwords \cup {"", "pw1 "}
HashSalts == Salts \cup {"s2"}
WritesDone(c) ==
    /\ req[c].pc = "commit" /\ req'[c].pc = "done" /\ req'[c].status = 200
    /\ req'[c].kind \in Creates \cup Updates
C14_Step ==
    /\ \A c \in Clients : WritesDone(c) =>
          \A row \in {u \in users' : u.id = req'[c].target} :
              IF req'[c].pw # ""
              THEN \A p \in Passwords :
                       (authenticate_user(users', row.username, p) # None) <=> (p = req'[c].pw)
              ELSE \A old \in {u \in users : u.id = row.id} :
                       row.hashed_password = old.hashed_password
    /\ \A old \in users, new \in users' :
          (old.id = new.id /\ old.hashed_password # new.hashed_password)
              => \E c \in Clients : WritesDone(c) /\ req'[c].target = new.id /\ req'[c].pw # ""
C14_VerifyIffSamePassword ==
    [][/\ \A p \in PlainTexts, s \in HashSalts : verify_password(p, get_password_hash(p, s))
       /\ \A p1, p2 \in PlainTexts, s \in HashSalts :
             p1 # p2 => ~verify_password(p1, get_password_hash(p2, s))
       /\ C14_Step]_vars
C14_Witness ==
    \E c \in Clients :
        /\ req[c].kind = "login_for_access_token" /\ req[c].pc = "done"
        /\ req[c].status = 200 /\ req[c].pw = "pw2"
\* C15: verify_password on a stored value that is truncated or of a foreign
\* format is false for every candidate password, and a login naming a
\* principal whose stored hash is such a value is answered 401 with no token.
MalformedHashes ==
    {TruncatedHash, ForeignHash, [salt |-> "", digest |-> << >>]}
        \cup {[salt |-> s, digest |-> <<"md5", s, p>>] : s \in HashSalts, p \in PlainTexts}
        \cup {[salt |-> s, digest |-> <<"bcrypt", s>>] : s \in HashSalts}
C15_MalformedHashNeverVerifies ==
    /\ \A stored \in MalformedHashes, p \in PlainTexts : verify_password(p, stored) = FALSE
    /\ \A c \in Clients :
          LET r == req[c]
              tbl == IF r.kind = "login_for_access_token" THEN users ELSE admins IN
          (/\ r.kind \in Logins /\ r.pc = "done"
           /\ \E p \in tbl : p.username = r.arg /\ ~Identified(p.hashed_password))
              => r.status = 401 /\ r.out = NoToken
C15_Witness ==
    \E c \in Clients :
        /\ req[c].kind = "admin_login_for_access_token" /\ req[c].pc = "done"
        /\ req[c].status = 401 /\ req[c].arg = "carol" /\ req[c].pw = "pw1"
        /\ \E a \in admins : a.username = "carol" /\ a.hashed_password = TruncatedHash
\* C16 (as claimed): a token returned by the user login POST /login is
\* rejected by the guard of every admin-only endpoint.
GuardOutcome(kind, tok) ==
    LET d == decode(tok, now)
        r == [Idle EXCEPT !.kind = kind, !.pc = "resolving", !.tok = tok,
                          !.at = now, !.sub = d.sub] IN
    IF d.err # "ok" THEN Finish([r EXCEPT !.err = d.err], 401)
    ELSE IF GuardOf(kind) = "get_current_user" THEN get_current_user(r, users)
    ELSE IF GuardOf(kind) = "get_current_admin" THEN get_current_admin(r, admins)
    ELSE require_admin_access(r, admins)
C16_UserTokenNeverAdmin ==
    \A c \in Clients :
        (req[c].kind = "login_for_access_token" /\ req[c].pc = "done" /\ req[c].status = 200)
            => \A kind \in AdminEndpoints :
                   AuthState(GuardOutcome(kind, req[c].out)) = "Rejected"
\* C17: a user created by POST /users has is_admin = false whatever is_admin
\* the body carried, and a PUT /users/{id} leaves the stored is_admin of the
\* row as it was whatever is_admin the body carried (requests handled one
\* after the other).
C17_UsersCannotSetAdminStatus ==
    [][\A c \in Clients :
          (req[c].pc = "commit" /\ req'[c].pc = "done" /\ req'[c].status = 200) =>
              /\ req[c].kind = "create_new_user" =>
                    \A row \in users' : row.id = req'[c].target => row.is_admin = FALSE
              /\ req[c].kind = "update_existing_user" =>
                    \A old \in users, new \in users' :
                        old.id = new.id => new.is_admin = old.is_admin]_vars
C17_Witness ==
    \E c \in Clients :
        /\ req[c].kind = "update_existing_user" /\ req[c].pc = "done" /\ req[c].status = 200
        /\ req[c].is_admin = Some(FALSE)
        /\ \E u \in users : u.id = req[c].target /\ u.is_admin = TRUE
\* C18: a PUT or DELETE /users/{user_id} whose user_id is not the id of the
\* authenticated user is answered 403 and changes nothing in the user table,
\* one whose user_id is the caller's own is not answered 403, and a row is
\* changed or removed by such a request only when the request was
\* authenticated as that row.
OwnAccount == {"update_existing_user", "delete_existing_user"}
C18_OwnAccountOnly ==
    [][\A c \in Clients :
          LET r == req[c]
              n == req'[c] IN
          /\ (r.kind \in OwnAccount /\ r.pc = "body" /\ n # r) =>
                IF \E cu \in r.principal : cu.id # n.target
                THEN n.pc = "done" /\ n.status = 403 /\ users' = users
                ELSE n.status # 403
          /\ (r.kind \in OwnAccount /\ r.pc = "commit" /\ n # r) =>
                \A old \in users \ users' : \E cu \in r.principal : cu.id = old.id]_vars
C18_Witness ==
    \E c \in Clients :
        /\ req[c].kind \in OwnAccount /\ req[c].pc = "done" /\ req[c].status = 403
        /\ \E cu \in req[c].principal, u \in users : u.id = req[c].target /\ cu.id # u.id
\* C19 (as claimed): a token authorises only the user record it was issued
\* for: the principal a user guard returns for a token POST /login handed out
\* is the record (the id) the token was issued for.
C19_TokenBoundToRecord ==
    \A c \in Clients :
        (req[c].kind \in UserEndpoints /\ req[c].principal # None)
            => \A h \in held :
                   (h.tok = req[c].tok /\ h.via = "login")
                       => \E p \in req[c].principal : p.id = h.id
\* C20 (as claimed): a create request whose username is held by a row of the
\* user table when the request is decided is answered 400 and inserts
\* nothing, under every interleaving of concurrent create requests.
C20_DuplicateAnswered400 ==
    [][\A c \in Clients :
          (/\ req[c].kind \in Creates /\ req[c].pc \in {"body", "commit"}
           /\ req'[c].pc = "done"
           /\ \E u \in users : u.username = req'[c].arg)
              => req'[c].status = 400 /\ users' = users]_vars
\* C21: update_user changes only the fields that are supplied.  As a
\* function: a username, email or password that is None or empty keeps the
\* stored value, a password that is not supplied keeps the stored hash,
\* is_admin None keeps the stored flag, and the id is never changed.  As a
\* step of the service: an update answered 200 replaces the row of the id it
\* was addressed to by a row that differs from it only in the fields the body
\* supplied, and leaves every other row, the admins and the id counter as they
\* were; an update that is not answered 200 changes no row at all.
Absent == {None, Some("")}
SampleRows ==
    {[id |-> i, username |-> "alice", email |-> "a@x.com",
      hashed_password |-> get_password_hash("pw1", "s1"), is_admin |-> b] :
         i \in Ids, b \in BOOLEAN}
C21_Function ==
    \A user \in SampleRows, salt \in Salts,
       username \in Absent \cup {Some("root")}, email \in Absent \cup {Some("c@x.com")},
       password \in Absent \cup {Some("pw2")}, is_admin \in Opt(BOOLEAN) :
        LET new == Updated(user, username, email, password, salt, is_admin) IN
        /\ new.id = user.id
        /\ new.username = (IF username \in Absent THEN user.username ELSE "root")
        /\ new.email = (IF email \in Absent THEN user.email ELSE "c@x.com")
        /\ (password \in Absent => new.hashed_password = user.hashed_password)
        /\ (password \notin Absent => verify_password("pw2", new.hashed_password))
        /\ new.is_admin = (IF is_admin = None THEN user.is_admin ELSE CHOOSE v \in is_admin : TRUE)
C21_Step(c) ==
    (req[c].pc = "commit" /\ req[c].kind \in Updates /\ req'[c].pc = "done") =>
        /\ admins' = admins /\ next_id' = next_id
        /\ req'[c].status # 200 => users' = users
        /\ req'[c].status = 200 =>
              \E old \in users, new \in users' :
                  /\ old.id = req[c].target /\ new.id = old.id
                  /\ users' \ {new} = users \ {old}
                  /\ (req'[c].username \in Absent => new.username = old.username)
                  /\ (req'[c].email \in Absent => new.email = old.email)
                  /\ (req'[c].pw = "" => new.hashed_password = old.hashed_password)
                  /\ (req'[c].is_admin = None => new.is_admin = old.is_admin)
C21_UpdateChangesOnlySupplied ==
    [][C21_Function /\ \A c \in Clients : C21_Step(c)]_vars
\* An update that carried an empty username and an empty password next to a
\* new email was answered 200 while a second user was registered.
C21_Witness ==
    \E c \in Clients :
        /\ req[c].pc = "done" /\ req[c].kind \in Updates /\ req[c].status = 200
        /\ req[c].username = Some("") /\ req[c].pw = "" /\ req[c].email = Some("c@x.com")
        /\ Cardinality(users) = 2
        /\ \E u \in users : u.id = req[c].target /\ u.email = "c@x.com" /\ u.username # ""
\* C22 (as claimed): whenever the dashboard is open and its session holds no
\* access token, the page rendered is the login page; in particular a
\* logged-out session never renders the Create, Update or Delete User page.
C22_LoggedOutRendersLogin ==
    (OnScreen /\ session.access_token = None) => screen.page = "Login"
\* C23 (as claimed): when the launcher has exited, a backend that option 3
\* started has been terminated and waited for.
C23_BackendStoppedBeforeExit ==
    launcher.pc = "exited" => launcher.backend \in {"none", "reaped"}
====
